---- MODULE Spec2Model ----
(***************************************************************************)
(* Model of the tool-calling repair agent (generated_agent/agent.py) and   *)
(* of the HTTP endpoint that feeds it (app.py).                            *)
(*                                                                         *)
(* The file system is modelled as two directory trees, the target project  *)
(* (TARGET_DIR) and its backup (BACKUP_DIR), plus the agent's own source   *)
(* file.  Strings that the code builds (failure reasons, printed lines,    *)
(* the JSON payload of finish) are sequences of tokens, so a prefix or an  *)
(* escape is visible in the model.                                         *)
(***************************************************************************)
EXTENDS Integers, Sequences, FiniteSets, TLC

\* ------------------------------------------------------------------------
\* Program constants
\* ------------------------------------------------------------------------
MAX_TURNS == 10

\* ------------------------------------------------------------------------
\* Bounds of the model
\* ------------------------------------------------------------------------
\* I/O and transport faults injected in one execution
MaxFaults == 1
\* proposals of one run that are not the plain "run the whole test suite" call
MaxDeviations == 1
\* length of the message argument of finish
MaxMsgLen == 1
\* length of the model's reply to the improvement request
MaxReplyLen == 2
\* calls made in the sandbox-manager specification
MaxCalls == 3

\* ------------------------------------------------------------------------
\* File system
\* ------------------------------------------------------------------------
Files == {"app.py", "util.py"}
Contents == {"v0", "v1"}
NoFile == "none"

\* a directory that does not exist
Absent == [exists |-> FALSE, files |-> [f \in Files |-> NoFile]]

Dir(fs) == [exists |-> TRUE, files |-> fs]

Trees == {Dir(fs) : fs \in [Files -> Contents \cup {NoFile}]}

\* os.path.exists
PathExists(d) == d.exists

\* states a directory can be left in by shutil.rmtree that raised part-way:
\* the directory still exists, some of its entries are gone
PartlyRemoved(d) ==
    {Dir([f \in Files |-> IF f \in gone THEN NoFile ELSE d.files[f]]) :
        gone \in SUBSET {f \in Files : d.files[f] # NoFile}}

\* states the destination can be left in by shutil.copytree that raised:
\* not created at all, or created with some of the source's entries
PartlyCopied(src) ==
    {Absent} \cup
    {Dir([f \in Files |-> IF f \in done THEN src.files[f] ELSE NoFile]) :
        done \in (SUBSET {f \in Files : src.files[f] # NoFile})
                 \ {{f \in Files : src.files[f] # NoFile}}}
    \cup {Dir([f \in Files |-> NoFile])}

\* ------------------------------------------------------------------------
\* Project Sandbox Manager: what each operation can do to the file system.
\* canFault says whether an I/O error may be injected in this call.
\* ------------------------------------------------------------------------

\* copying src over an existing directory old, entry by entry
Merged(src, old) ==
    IF ~old.exists THEN src
    ELSE Dir([f \in Files |->
                IF src.files[f] # NoFile THEN src.files[f] ELSE old.files[f]])

\* the body of backup_project(): the possible (return value, backup) pairs;
\* fresh says whether the prior backup is removed first (lines 161-162)
BackupAttempt(tgt, bak, canFault, fresh) ==
    LET afterRm == Absent   \* rmtree(BACKUP_DIR) done, or nothing to remove
    IN  (IF PathExists(tgt)
           THEN {[ret |-> TRUE, fault |-> FALSE,
                  backup |-> IF fresh THEN tgt ELSE Merged(tgt, bak)]}
           \* copytree of a missing source raises FileNotFoundError (an OSError)
           ELSE {[ret |-> FALSE, backup |-> afterRm, fault |-> FALSE]})
        \cup
        (IF canFault /\ PathExists(bak)
           THEN {[ret |-> FALSE, backup |-> b, fault |-> TRUE] :
                    b \in PartlyRemoved(bak)}
           ELSE {})
        \cup
        (IF canFault /\ PathExists(tgt)
           THEN {[ret |-> FALSE, backup |-> b, fault |-> TRUE] :
                    b \in PartlyCopied(tgt)}
           ELSE {})

\* backup_project() copying over a prior backup instead of replacing it
backup_project_merge(tgt, bak, canFault) == BackupAttempt(tgt, bak, canFault, FALSE)

\* backup_project(): a prior backup is destroyed, then the target is copied
backup_project(tgt, bak, canFault) == BackupAttempt(tgt, bak, canFault, TRUE)

\* the body of restore_project(): the possible targets it leaves; error = an
\* I/O error occurred, raises = it left the call (caught says whether the
\* except clause of lines 178-179 is there)
RestoreAttempt(tgt, bak, canFault, caught) ==
    IF ~PathExists(bak)
      THEN {[target |-> tgt, error |-> FALSE, raises |-> FALSE]}
      ELSE {[target |-> bak, error |-> FALSE, raises |-> FALSE]}
           \cup
           (IF canFault /\ PathExists(tgt)
              THEN {[target |-> t, error |-> TRUE, raises |-> ~caught] :
                       t \in PartlyRemoved(tgt)}
              ELSE {})
           \cup
           (IF canFault
              THEN {[target |-> t, error |-> TRUE, raises |-> ~caught] :
                       t \in PartlyCopied(bak)}
              ELSE {})

\* restore_project() without its except clause
restore_project_uncaught(tgt, bak, canFault) ==
    RestoreAttempt(tgt, bak, canFault, FALSE)

\* restore_project(): I/O errors are logged, not raised
restore_project(tgt, bak, canFault) == RestoreAttempt(tgt, bak, canFault, TRUE)

\* cleanup_backup(): the possible backups it leaves
cleanup_backup(bak, canFault) ==
    IF ~PathExists(bak)
      THEN {[backup |-> bak, error |-> FALSE]}
      ELSE {[backup |-> Absent, error |-> FALSE]}
           \cup
           (IF canFault
              THEN {[backup |-> b, error |-> TRUE] : b \in PartlyRemoved(bak)}
              ELSE {})

\* ------------------------------------------------------------------------
\* Strings
\* ------------------------------------------------------------------------
Chars == {"a", "\""}

SeqsUpTo(S, n) == UNION {[1..k -> S] : k \in 0..n}

Messages == SeqsUpTo(Chars, MaxMsgLen)

\* json.dumps of a string: the quote and the backslash are escaped
RECURSIVE JsonEscape(_)
JsonEscape(s) ==
    IF s = <<>> THEN <<>>
    ELSE (IF Head(s) \in {"\"", "\\"} THEN <<"\\", Head(s)>> ELSE <<Head(s)>>)
         \o JsonEscape(Tail(s))

\* json.loads of a string literal's body: a backslash takes the next
\* character literally
RECURSIVE JsonUnescape(_)
JsonUnescape(s) ==
    IF s = <<>> THEN <<>>
    ELSE IF Head(s) = "\\" /\ Len(s) >= 2
           THEN <<s[2]>> \o JsonUnescape(Tail(Tail(s)))
           ELSE <<Head(s)>> \o JsonUnescape(Tail(s))

\* json.dumps({"status": status, "message": message})
json_dumps(obj) ==
    [status |-> JsonEscape(obj.status), message |-> JsonEscape(obj.message)]

\* json.loads that leaves the escapes in
json_loads_raw(txt) == [status |-> txt.status, message |-> txt.message]

\* json.loads(result)
json_loads(txt) ==
    [status |-> JsonUnescape(txt.status), message |-> JsonUnescape(txt.message)]

\* str.strip(): leading and trailing white space removed
RECURSIVE LStrip(_)
LStrip(s) == IF s # <<>> /\ Head(s) = " " THEN LStrip(Tail(s)) ELSE s

RECURSIVE RStrip(_)
RStrip(s) ==
    IF s # <<>> /\ s[Len(s)] = " " THEN RStrip(SubSeq(s, 1, Len(s) - 1)) ELSE s

Strip(s) == RStrip(LStrip(s))

IsPrefix(p, s) == Len(p) <= Len(s) /\ SubSeq(s, 1, Len(p)) = p

\* str.replace(old, ""): every non-overlapping occurrence of old removed,
\* scanning from the left
RECURSIVE Remove(_, _)
Remove(s, old) ==
    IF s = <<>> THEN <<>>
    ELSE IF IsPrefix(old, s)
           THEN Remove(SubSeq(s, Len(old) + 1, Len(s)), old)
           ELSE <<Head(s)>> \o Remove(Tail(s), old)

\* the fence markers self_improve removes; the token "<fence>" stands for
\* the three backquotes of a markdown code fence
FencePython == <<"<fence>", "python">>
Fence == <<"<fence>">>

ReplyTokens == {" ", "<fence>", "python", "x"}

ImproveReplies == SeqsUpTo(ReplyTokens, MaxReplyLen)

\* only the white space stripped
StripReplyWhitespaceOnly(text) == Strip(text)

\* response.text.strip().replace("```python", "").replace("```", "").strip()
StripReply(text) == Strip(Remove(Remove(Strip(text), FencePython), Fence))

\* ------------------------------------------------------------------------
\* Tool Registry
\* ------------------------------------------------------------------------
tool_functions == {"read_file", "write_file", "run_tests", "finish"}

\* finish taking its message as optional
RequiredLax(name) ==
    CASE name = "read_file"  -> {"file_path"}
      [] name = "write_file" -> {"file_path", "content"}
      [] name = "run_tests"  -> {}
      [] name = "finish"     -> {"status"}
      [] OTHER               -> {}

\* keyword parameters without a default, per handler signature
Required(name) ==
    CASE name = "read_file"  -> {"file_path"}
      [] name = "write_file" -> {"file_path", "content"}
      [] name = "run_tests"  -> {}
      [] name = "finish"     -> {"status", "message"}
      [] OTHER               -> {}

\* keyword parameters with a default
Optional(name) == IF name = "run_tests" THEN {"target_test"} ELSE {}

\* function_to_call(**args) binds: no required key missing, no unknown key
\* (otherwise Python raises TypeError before the handler body runs)
Accepts(name, args) ==
    /\ Required(name) \subseteq args
    /\ args \subseteq (Required(name) \cup Optional(name))

\* a model reply: name = "" is a reply without a function call. The fields
\* describe the first part of the message (the only one line 220 reads):
\* parts is the number of function-call parts the message carries, wrong the
\* keys whose value is not a string (the declared types are advisory)
Proposal(name, args, dir, file, content, status, message) ==
    [name |-> name, args |-> args, dir |-> dir, file |-> file,
     content |-> content, status |-> status, message |-> message,
     parts |-> IF name = "" THEN 0 ELSE 1, wrong |-> {}]

NoCall == Proposal("", {}, "", "", "", <<>>, <<>>)

\* run_tests() on the whole suite: the call the priming prompt asks for
RunAll == Proposal("run_tests", {}, "", "", "", <<>>, <<>>)

\* the replies the model can give on one turn
ModelReplies ==
    {NoCall, RunAll}
    \cup {Proposal("delete_file", {"file_path"}, "target", "app.py", "", <<>>, <<>>)}
    \cup {Proposal("read_file", {"file_path"}, d, "app.py", "", <<>>, <<>>) :
            d \in {"target", "missing"}}
    \cup {Proposal("write_file", {"file_path", "content"}, "target", f, "v1", <<>>, <<>>) :
            f \in Files}
    \cup {Proposal("write_file", {"file_path", "content"}, d, "app.py", "v1", <<>>, <<>>) :
            d \in {"backup", "missing"}}
    \cup {Proposal("write_file", {"file_path"}, "target", "app.py", "", <<>>, <<>>)}
    \cup {Proposal("run_tests", {"target_test"}, "", "", "", <<>>, <<>>)}
    \cup {Proposal("run_tests", {"verbose"}, "", "", "", <<>>, <<>>)}
    \cup {Proposal("finish", {"status", "message"}, "", "", "", st, m) :
            st \in {<<"SUCCESS">>, <<"FAILURE">>}, m \in Messages}
    \* the declared enum is advisory: the model can send another status
    \cup {Proposal("finish", {"status", "message"}, "", "", "", <<"DONE">>, <<"a">>)}
    \cup {Proposal("finish", {"status"}, "", "", "", <<"SUCCESS">>, <<>>)}
    \* a path holding a NUL character
    \cup {Proposal("read_file", {"file_path"}, "nul", "app.py", "", <<>>, <<>>)}
    \* a number where the path is expected
    \cup {[Proposal("read_file", {"file_path"}, "target", "app.py", "", <<>>, <<>>)
             EXCEPT !.wrong = {"file_path"}]}
    \* parallel function calling: a second function-call part in the message
    \cup {[RunAll EXCEPT !.parts = 2]}

\* open(file_path) raises ValueError (embedded null byte), which neither the
\* handler (IOError, OSError) nor line 252 (TypeError) catches
RaisesValueError(p) ==
    /\ p.name \in {"read_file", "write_file"}
    /\ Accepts(p.name, p.args)
    /\ p.wrong = {}
    /\ p.dir = "nul"

\* the handler body raises TypeError on a value that is not a string before
\* it has touched anything: open() in read_file and write_file,
\* subprocess.run() in run_tests; json.dumps in finish takes a number
BodyTypeError(p) ==
    \/ p.name \in {"read_file", "write_file"} /\ "file_path" \in p.wrong
    \/ p.name = "run_tests" /\ "target_test" \in p.wrong \cap p.args

\* function_to_call(**args) raises TypeError (lines 233, 252)
RaisesTypeError(p) == ~Accepts(p.name, p.args) \/ BodyTypeError(p)

\* a proposal after which the loop goes on to another turn
Continues(p) ==
    /\ p.name \in tool_functions
    /\ ~(p.name = "finish" /\ Accepts(p.name, p.args))
    /\ ~RaisesValueError(p)

IsDeviation(p) == Continues(p) /\ p # RunAll

\* the directory a path lies in
DirOf(p, tgt, bak) ==
    CASE p.dir = "target" -> tgt
      [] p.dir = "backup" -> bak
      [] OTHER            -> Absent

\* read_file(file_path): the text it returns
read_file(p, tgt, bak) ==
    IF DirOf(p, tgt, bak).exists /\ DirOf(p, tgt, bak).files[p.file] # NoFile
      THEN "contents"
      ELSE "Error reading file"

\* write_file(file_path, content): the text it returns and the trees after
write_file(p, tgt, bak) ==
    IF DirOf(p, tgt, bak).exists
      THEN [text   |-> "File written successfully.",
            target |-> IF p.dir = "target"
                         THEN Dir([tgt.files EXCEPT ![p.file] = p.content])
                         ELSE tgt,
            backup |-> IF p.dir = "backup"
                         THEN Dir([bak.files EXCEPT ![p.file] = p.content])
                         ELSE bak]
      ELSE [text |-> "Error writing file", target |-> tgt, backup |-> bak]

\* an accepted call whose handler can raise an exception it does not catch
\* and that is not a TypeError: UnicodeDecodeError on reading a file that is
\* not UTF-8 (line 46), an OSError other than FileNotFoundError from
\* subprocess.run (lines 71-76)
MayRaise(p, tgt, bak) ==
    \/ p.name = "run_tests"
    \/ /\ p.name = "read_file"
       /\ DirOf(p, tgt, bak).exists
       /\ DirOf(p, tgt, bak).files[p.file] # NoFile

\* the test suite passes once the target's entry file has the fixed content
TestsPass(tgt) == tgt.exists /\ tgt.files["app.py"] = "v1"

\* run_tests(target_test): the text it returns
run_tests(p, tgt, found) ==
    IF ~found THEN "Error: 'pytest' command not found."
    ELSE IF TestsPass(tgt) THEN "Return Code: 0" ELSE "Return Code: 1"

\* finish(status, message)
finish(p) == json_dumps([status |-> p.status, message |-> p.message])

\* ------------------------------------------------------------------------
\* Transcript
\* ------------------------------------------------------------------------
PrimingTurn ==
    [role |-> "user", kind |-> "text", name |-> "", text |-> "prompt",
     actions |-> 0]

\* the model's message carrying the function call (line 227); actions is
\* the number of function calls it proposes
CallTurn(p) ==
    [role |-> "model", kind |-> "call", name |-> p.name, text |-> "",
     actions |-> p.parts]

\* the function response carrying the tool's result (lines 244-251)
ResultTurn(name, text) ==
    [role |-> "model", kind |-> "result", name |-> name, text |-> text,
     actions |-> 0]

\* the function response carrying the TypeError (lines 255-262)
ErrorTurn(name) ==
    [role |-> "model", kind |-> "error", name |-> name,
     text |-> "Invalid arguments", actions |-> 0]

\* ------------------------------------------------------------------------
\* Outcomes of main_tool_loop
\* ------------------------------------------------------------------------
Outcome(kind, cause, reason) == [kind |-> kind, cause |-> cause, reason |-> reason]

Running == Outcome("running", "", <<>>)

MaxIterationsExceeded(cause, reason) == Outcome("MaxIterationsExceeded", cause, reason)

\* an exception main_tool_loop does not raise itself
Uncategorized(cause) == Outcome("Exception", cause, <<>>)

Returned(cause) == Outcome("return", cause, <<>>)

\* ------------------------------------------------------------------------
\* State
\* ------------------------------------------------------------------------
VARIABLES
    pc,               \* where the process is
    target,           \* TARGET_DIR
    backup,           \* BACKUP_DIR
    own_code,         \* the agent's own source file (__file__)
    conversation,     \* the transcript of main_tool_loop
    turn,             \* iterations of the for loop begun
    fc,               \* the function call of the current iteration
    outcome,          \* how main_tool_loop ended
    stdout,           \* the lines printed
    requests,         \* model.generate_content(conversation) calls made
    dispatches,       \* function_to_call(**args) calls made
    improve_requests, \* model.generate_content(meta_prompt) calls made
    calls,            \* sandbox and self-improvement functions entered, in order
    faults,           \* faults injected so far
    deviations,       \* proposals of the running loop that were not RunAll
    target0,          \* TARGET_DIR when the process started
    bk,               \* the most recent backup_project call
    pytest,           \* whether the pytest command exists
    errors,           \* functions that logged an I/O or API error (agent.log)
    response_text,    \* the reply to the improvement request
    backup0,          \* BACKUP_DIR when the process started
    api_key,          \* whether GOOGLE_API_KEY is set
    agents            \* the endpoint's requests and their agent subprocesses

vars == <<pc, target, backup, own_code, conversation, turn, fc, outcome, stdout,
          requests, dispatches, improve_requests, calls, faults, deviations,
          target0, bk, pytest, errors, response_text, backup0, api_key,
          agents>>

CanFault == faults < MaxFaults

OwnSource == <<"agent">>

NoResponse == <<"<no response>">>

NoBackupCall == [called |-> FALSE, ret |-> FALSE, tgt |-> Absent]

\* what a process can find when it starts: the target as the endpoint left
\* it (or missing), possibly a stale backup of an earlier run, and pytest
\* installed or not
Broken == Dir([f \in Files |-> IF f = "app.py" THEN "v0" ELSE NoFile])
Stale == Dir([f \in Files |-> "v1"])

Env(t, b, f, k) == [target |-> t, backup |-> b, pytest |-> f, api_key |-> k]

InitEnvs ==
    {Env(Broken, Absent, TRUE, TRUE), Env(Broken, Stale, FALSE, TRUE),
     Env(Absent, Stale, TRUE, TRUE), Env(Broken, Stale, TRUE, FALSE)}

\* no request of the endpoint is modelled in the single-process specifications
NoAgents == [pc |-> <<>>, log |-> <<>>]

Init ==
    /\ pc = "import"
    /\ \E e \in InitEnvs :
        /\ target = e.target
        /\ backup = e.backup
        /\ pytest = e.pytest
        /\ api_key = e.api_key
    /\ backup0 = backup
    /\ agents = NoAgents
    /\ own_code = OwnSource
    /\ conversation = <<>>
    /\ turn = 0
    /\ fc = NoCall
    /\ outcome = Running
    /\ stdout = <<>>
    /\ requests = 0
    /\ dispatches = 0
    /\ improve_requests = 0
    /\ calls = <<>>
    /\ faults = 0
    /\ deviations = 0
    /\ target0 = target
    /\ bk = NoBackupCall
    /\ errors = {}
    /\ response_text = NoResponse

\* ------------------------------------------------------------------------
\* Module-level configuration
\* ------------------------------------------------------------------------
SystemExit == Outcome("SystemExit", "configuration", <<>>)

\* the configuration going on without a key
ConfiguredAnyway(key) == TRUE

\* lines 86-88: the key is there
Configured(key) == key

\* lines 85-154: the module is imported; sys.exit(1) on a missing key or an
\* API error of the client set-up
Configure ==
    /\ pc = "import"
    /\ \/ /\ Configured(api_key)
          /\ pc' = "start"
          /\ UNCHANGED <<outcome, faults, errors>>
       \/ /\ ~Configured(api_key)
          /\ pc' = "exit"
          /\ outcome' = SystemExit
          /\ errors' = errors \cup {"configuration"}
          /\ faults' = faults
       \/ \* genai.configure or GenerativeModel raises GoogleAPICallError
          /\ Configured(api_key)
          /\ CanFault
          /\ faults' = faults + 1
          /\ pc' = "exit"
          /\ outcome' = SystemExit
          /\ errors' = errors \cup {"configuration"}
    /\ UNCHANGED <<target, backup, own_code, conversation, turn, fc, stdout,
                   requests, dispatches, improve_requests, calls, deviations,
                   target0, backup0, api_key, agents, bk, pytest, response_text>>

\* ------------------------------------------------------------------------
\* main_tool_loop
\* ------------------------------------------------------------------------

\* the loop entered whatever backup_project returned
LoopEnteredAnyway(ret) == TRUE

\* lines 192-193: if not backup_project(): return
LoopEntered(ret) == ret

\* lines 192-207: backup_project(), then the priming turn
Backup ==
    /\ pc = "start"
    /\ \E r \in backup_project(target, backup, CanFault) :
        /\ backup' = r.backup
        /\ faults' = IF r.fault THEN faults + 1 ELSE faults
        /\ errors' = IF r.ret THEN errors ELSE errors \cup {"backup_project"}
        /\ bk' = [called |-> TRUE, ret |-> r.ret, tgt |-> target]
        /\ IF LoopEntered(r.ret)
             THEN /\ pc' = "request"
                  /\ conversation' = <<PrimingTurn>>
                  /\ outcome' = outcome
             ELSE /\ pc' = "driver"
                  /\ conversation' = conversation
                  /\ outcome' = Returned("backup_failed")
    /\ calls' = Append(calls, "backup_project")
    /\ UNCHANGED <<target, own_code, turn, fc, stdout, requests, dispatches,
                   improve_requests, deviations, target0, backup0, api_key, agents, pytest, response_text>>

\* a reply without a function call ends the loop silently
OnNoActionSilent == Returned("no_action")

\* line 217
OnNoAction ==
    MaxIterationsExceeded("no_action", <<"Model failed to provide a next step.">>)

\* an unknown tool answered with an error turn, the loop going on
OnUnknownToolFold(conv, name) ==
    [conversation |-> Append(conv, ErrorTurn(name)), outcome |-> Running]

\* line 264
OnUnknownTool(conv, name) ==
    [conversation |-> conv,
     outcome |-> MaxIterationsExceeded("unknown_tool",
                    <<"Model requested a non-existent tool: ", name>>)]

\* the TypeError ending the run instead of being folded into the transcript
OnTypeErrorRaise(conv, name) ==
    [conversation |-> conv,
     outcome |-> MaxIterationsExceeded("invalid_arguments", <<"Invalid arguments">>)]

\* lines 252-262
OnTypeError(conv, name) ==
    [conversation |-> Append(conv, ErrorTurn(name)), outcome |-> Running]

\* an exception of the handler answered with an error turn, the loop going on
OnOtherErrorFold(conv, name) ==
    [conversation |-> Append(conv, ErrorTurn(name)), outcome |-> Running]

\* lines 233, 252: an exception that is not a TypeError passes the except
\* clause and leaves main_tool_loop through the finally block
OnOtherError(conv, name) ==
    [conversation |-> conv, outcome |-> Uncategorized("dispatch_fault")]

\* finish with any status taken for success
OnFinishAlwaysSuccess(result) ==
    [outcome |-> Returned("finish_success"),
     print   |-> <<<<"SUCCESS: ">> \o json_loads(result).message>>]

\* lines 235-241
OnFinish(result) ==
    LET final_status == json_loads(result)
    IN  IF final_status.status = <<"SUCCESS">>
          THEN [outcome |-> Returned("finish_success"),
                print   |-> <<<<"SUCCESS: ">> \o final_status.message>>]
          ELSE [outcome |-> MaxIterationsExceeded("finish_failure",
                                <<"Agent finished with failure: ">>
                                    \o final_status.message),
                print   |-> <<>>]

\* the loop bound off by one
LoopContinuesOffByOne(t) == t <= MAX_TURNS

\* line 209: for turn in range(MAX_TURNS), t iterations begun
LoopContinues(t) == t < MAX_TURNS

\* line 267
Exhausted ==
    MaxIterationsExceeded("budget",
        <<"Failed to fix the code within ", ToString(MAX_TURNS), " turns.">>)

\* lines 212-227: one model request and the decoding of its reply
Request ==
    /\ pc = "request"
    /\ requests' = requests + 1
    /\ turn' = turn + 1
    /\ \/ \* the request raises (transport error, no candidates, ...)
          /\ CanFault
          /\ faults' = faults + 1
          /\ outcome' = Uncategorized("request_fault")
          /\ pc' = "finally_restore"
          /\ UNCHANGED <<conversation, fc, deviations>>
       \/ \E p \in ModelReplies :
          /\ IsDeviation(p) => deviations < MaxDeviations
          /\ deviations' = IF IsDeviation(p) THEN deviations + 1 ELSE deviations
          /\ faults' = faults
          /\ IF p.name = ""
               THEN /\ outcome' = OnNoAction
                    /\ pc' = "finally_restore"
                    /\ UNCHANGED <<conversation, fc>>
               ELSE /\ fc' = p
                    /\ conversation' = Append(conversation, CallTurn(p))
                    /\ pc' = "dispatch"
                    /\ outcome' = outcome
    /\ UNCHANGED <<target, backup, own_code, stdout, dispatches,
                   improve_requests, calls, target0, backup0, api_key, agents, bk, pytest, errors,
                   response_text>>

\* the loop going on whatever the number of iterations begun
IterateAgain ==
    /\ pc' = "request"
    /\ outcome' = outcome

\* the end of one iteration that did not leave the loop
Iterate ==
    IF LoopContinues(turn)
      THEN /\ pc' = "request"
           /\ outcome' = outcome
      ELSE /\ pc' = "finally_restore"
           /\ outcome' = Exhausted

\* lines 229-264: the proposed call is dispatched
Dispatch ==
    /\ pc = "dispatch"
    /\ IF fc.name \notin tool_functions
         THEN LET r == OnUnknownTool(conversation, fc.name)
              IN  /\ conversation' = r.conversation
                  /\ outcome' = r.outcome
                  /\ pc' = IF r.outcome.kind = "running" THEN "request"
                                                         ELSE "finally_restore"
                  /\ UNCHANGED <<target, backup, stdout, dispatches, faults>>
         ELSE
         /\ dispatches' = dispatches + 1
         /\ IF RaisesTypeError(fc)
              THEN LET r == OnTypeError(conversation, fc.name)
                   IN  /\ conversation' = r.conversation
                       /\ IF r.outcome.kind = "running"
                            THEN Iterate
                            ELSE /\ outcome' = r.outcome
                                 /\ pc' = "finally_restore"
                       /\ UNCHANGED <<target, backup, stdout, faults>>
              ELSE IF RaisesValueError(fc)
              THEN LET r == OnOtherError(conversation, fc.name)
                   IN  /\ conversation' = r.conversation
                       /\ IF r.outcome.kind = "running"
                            THEN Iterate
                            ELSE /\ outcome' = r.outcome
                                 /\ pc' = "finally_restore"
                       /\ UNCHANGED <<target, backup, stdout, faults>>
              ELSE
              \/ \* the handler raises something that is not a TypeError
                 /\ CanFault
                 /\ MayRaise(fc, target, backup)
                 /\ faults' = faults + 1
                 /\ LET r == OnOtherError(conversation, fc.name)
                    IN  /\ conversation' = r.conversation
                        /\ IF r.outcome.kind = "running"
                             THEN Iterate
                             ELSE /\ outcome' = r.outcome
                                  /\ pc' = "finally_restore"
                 /\ UNCHANGED <<target, backup, stdout>>
              \/ /\ fc.name = "finish"
                 /\ LET r == OnFinish(finish(fc))
                    IN  /\ outcome' = r.outcome
                        /\ stdout' = stdout \o r.print
                 /\ pc' = "finally_restore"
                 /\ UNCHANGED <<conversation, target, backup, faults>>
              \/ /\ fc.name = "read_file"
                 /\ conversation' = Append(conversation,
                        ResultTurn(fc.name, read_file(fc, target, backup)))
                 /\ Iterate
                 /\ UNCHANGED <<target, backup, stdout, faults>>
              \/ /\ fc.name = "write_file"
                 /\ LET r == write_file(fc, target, backup)
                    IN  /\ conversation' = Append(conversation,
                                              ResultTurn(fc.name, r.text))
                        /\ target' = r.target
                        /\ backup' = r.backup
                 /\ Iterate
                 /\ UNCHANGED <<stdout, faults>>
              \/ /\ fc.name = "run_tests"
                 /\ conversation' = Append(conversation,
                        ResultTurn(fc.name, run_tests(fc, target, pytest)))
                 /\ Iterate
                 /\ UNCHANGED <<target, backup, stdout, faults>>
    /\ UNCHANGED <<own_code, turn, fc, requests, improve_requests, calls,
                   deviations, target0, backup0, api_key, agents, bk, pytest, errors, response_text>>

\* line 270: restore_project() in the finally block
FinallyRestore ==
    /\ pc = "finally_restore"
    /\ \E r \in restore_project(target, backup, CanFault) :
        /\ target' = r.target
        /\ faults' = IF r.error THEN faults + 1 ELSE faults
        /\ errors' = IF r.error THEN errors \cup {"restore_project"} ELSE errors
        /\ IF r.raises
             THEN /\ pc' = "driver"
                  /\ outcome' = Uncategorized("restore_error")
                  /\ conversation' = <<>>
                  /\ fc' = NoCall
                  /\ turn' = 0
                  /\ deviations' = 0
             ELSE /\ pc' = "finally_cleanup"
                  /\ outcome' = outcome
                  /\ UNCHANGED <<conversation, fc, turn, deviations>>
    /\ calls' = Append(calls, "restore_project")
    /\ UNCHANGED <<backup, own_code, stdout, requests, dispatches,
                   improve_requests, target0, backup0, api_key, agents, bk, pytest, response_text>>

\* line 271: cleanup_backup() in the finally block; then the function is left
FinallyCleanup ==
    /\ pc = "finally_cleanup"
    /\ \E r \in cleanup_backup(backup, CanFault) :
        /\ backup' = r.backup
        /\ faults' = IF r.error THEN faults + 1 ELSE faults
        /\ errors' = IF r.error THEN errors \cup {"cleanup_backup"} ELSE errors
    /\ calls' = Append(calls, "cleanup_backup")
    /\ pc' = "driver"
    \* the locals of main_tool_loop end with the call
    /\ conversation' = <<>>
    /\ fc' = NoCall
    /\ turn' = 0
    /\ deviations' = 0
    /\ UNCHANGED <<target, own_code, outcome, stdout, requests, dispatches,
                   improve_requests, target0, backup0, api_key, agents, bk, pytest, response_text>>

\* ------------------------------------------------------------------------
\* The driver (__main__) and self_improve
\* ------------------------------------------------------------------------

\* except Exception
DriverCatchesAny(kind) == kind \in {"MaxIterationsExceeded", "Exception"}

\* line 315: except MaxIterationsExceeded
DriverCatches(kind) == kind = "MaxIterationsExceeded"

\* lines 313-318: main_tool_loop() has returned or raised
Driver ==
    /\ pc = "driver"
    /\ IF DriverCatches(outcome.kind)
         THEN /\ stdout' = Append(stdout, <<"FAILURE: ">> \o outcome.reason)
              /\ pc' = "self_improve"
         ELSE /\ stdout' = stdout
              /\ pc' = "exit"
    /\ UNCHANGED <<target, backup, own_code, conversation, turn, fc, outcome,
                   requests, dispatches, improve_requests, calls, faults,
                   deviations, target0, backup0, api_key, agents, bk, pytest, errors, response_text>>

\* what a write that raised part-way can leave in a file opened with 'w'
PartlyWritten(text) == {SubSeq(text, 1, k) : k \in 0..(Len(text) - 1)}

\* lines 273-309
self_improve ==
    /\ pc = "self_improve"
    /\ calls' = Append(calls, "self_improve")
    /\ pc' = "exit"
    /\ \/ \* the agent's source cannot be read (line 279): caught at line 306
          /\ CanFault
          /\ faults' = faults + 1
          /\ errors' = errors \cup {"self_improve"}
          /\ stdout' = Append(stdout, <<"Pivoting to self-improvement mode...">>)
          /\ UNCHANGED <<own_code, improve_requests, response_text>>
       \/ \* the improvement request raises an API error: caught at line 308
          /\ CanFault
          /\ faults' = faults + 1
          /\ improve_requests' = improve_requests + 1
          /\ errors' = errors \cup {"self_improve"}
          /\ stdout' = Append(stdout, <<"Pivoting to self-improvement mode...">>)
          /\ UNCHANGED <<own_code, response_text>>
       \/ \E text \in ImproveReplies :
          LET improved_code == StripReply(text)
          IN  /\ improve_requests' = improve_requests + 1
              /\ response_text' = text
              /\ IF improved_code = <<>>
                   THEN /\ stdout' = Append(stdout,
                                <<"Pivoting to self-improvement mode...">>)
                        \* logged as an error at line 297
                        /\ errors' = errors \cup {"self_improve"}
                        /\ UNCHANGED <<own_code, faults>>
                   ELSE \/ /\ own_code' = improved_code
                           /\ stdout' = stdout \o
                                <<<<"Pivoting to self-improvement mode...">>,
                                  <<"Self-improvement complete.">>>>
                           /\ UNCHANGED <<faults, errors>>
                        \/ \* the write raises an I/O error: caught at line 306
                           /\ CanFault
                           /\ faults' = faults + 1
                           /\ errors' = errors \cup {"self_improve"}
                           /\ own_code' \in PartlyWritten(improved_code)
                           /\ stdout' = Append(stdout,
                                <<"Pivoting to self-improvement mode...">>)
    /\ UNCHANGED <<target, backup, conversation, turn, fc, outcome, requests,
                   dispatches, deviations, target0, backup0, api_key, agents, bk, pytest>>

Next ==
    \/ Configure
    \/ Backup
    \/ Request
    \/ Dispatch
    \/ FinallyRestore
    \/ FinallyCleanup
    \/ Driver
    \/ self_improve

Spec == Init /\ [][Next]_vars

\* every model request and every call the process makes returns: no step
\* that is due is put off for ever
SpecLive == Spec /\ WF_vars(Next)

TypeOK ==
    /\ pc \in {"import", "start", "request", "dispatch", "finally_restore",
               "finally_cleanup", "driver", "self_improve", "exit"}
    /\ target \in Trees \cup {Absent}
    /\ backup \in Trees \cup {Absent}
    /\ turn \in 0..MAX_TURNS
    /\ requests \in 0..MAX_TURNS
    /\ faults \in 0..MaxFaults
    /\ deviations \in 0..MaxDeviations

\* ------------------------------------------------------------------------
\* The sandbox manager under a caller that backs up repeatedly while the
\* endpoint rewrites the target's entry file between the calls
\* ------------------------------------------------------------------------
InitSandbox ==
    /\ pc = "sandbox"
    /\ target \in Trees \cup {Absent}
    /\ backup \in Trees \cup {Absent}
    /\ own_code = OwnSource
    /\ conversation = <<>>
    /\ turn = 0
    /\ fc = NoCall
    /\ outcome = Running
    /\ stdout = <<>>
    /\ requests = 0
    /\ dispatches = 0
    /\ improve_requests = 0
    /\ calls = <<>>
    /\ faults = 0
    /\ deviations = 0
    /\ target0 = target
    /\ bk = NoBackupCall
    /\ pytest = TRUE
    /\ errors = {}
    /\ response_text = NoResponse
    /\ backup0 = backup
    /\ api_key = TRUE
    /\ agents = NoAgents

\* one call of backup_project()
CallBackup ==
    /\ pc = "sandbox"
    /\ Len(calls) < MaxCalls
    /\ \E r \in backup_project(target, backup, CanFault) :
        /\ backup' = r.backup
        /\ faults' = IF r.fault THEN faults + 1 ELSE faults
        /\ errors' = IF r.ret THEN errors ELSE errors \cup {"backup_project"}
        /\ bk' = [called |-> TRUE, ret |-> r.ret, tgt |-> target]
    /\ calls' = Append(calls, "backup_project")
    /\ UNCHANGED <<pc, target, own_code, conversation, turn, fc, outcome, stdout,
                   requests, dispatches, improve_requests, deviations, target0, backup0, api_key, agents,
                   pytest, response_text>>

\* app.py lines 23-27: the endpoint writes the submitted code to
\* target_project/app.py
run_agent_write ==
    /\ pc = "sandbox"
    /\ Len(calls) < MaxCalls
    /\ target.exists
    /\ \E user_code \in Contents :
        target' = Dir([target.files EXCEPT !["app.py"] = user_code])
    /\ calls' = Append(calls, "run_agent")
    /\ UNCHANGED <<pc, backup, own_code, conversation, turn, fc, outcome, stdout,
                   requests, dispatches, improve_requests, faults, deviations,
                   target0, backup0, api_key, agents, bk, pytest, errors, response_text>>

NextSandbox == CallBackup \/ run_agent_write

SpecSandbox == InitSandbox /\ [][NextSandbox]_vars

\* ------------------------------------------------------------------------
\* The HTTP endpoint handling two requests: each writes the submitted code
\* to the target's entry file and runs the agent as a subprocess; the agent
\* processes share TARGET_DIR and BACKUP_DIR. An agent's tool loop is
\* reduced to at most one write_file call.
\* ------------------------------------------------------------------------
Requests == {"r1", "r2"}

\* the agent of request r has backed the target up and not yet cleaned up
Active(r) == agents.pc[r] \in {"loop", "wrote", "restored"}

\* a sandbox step of r's agent falls between the backup and the cleanup of
\* another request's agent
Overlaps(r) == \E o \in Requests \ {r} : Active(o)

InitEndpoint ==
    /\ pc = "endpoint"
    /\ target = Broken
    /\ backup = Absent
    /\ own_code = OwnSource
    /\ conversation = <<>>
    /\ turn = 0
    /\ fc = NoCall
    /\ outcome = Running
    /\ stdout = <<>>
    /\ requests = 0
    /\ dispatches = 0
    /\ improve_requests = 0
    /\ calls = <<>>
    /\ faults = 0
    /\ deviations = 0
    /\ target0 = target
    /\ bk = NoBackupCall
    /\ pytest = TRUE
    /\ errors = {}
    /\ response_text = NoResponse
    /\ backup0 = backup
    /\ api_key = TRUE
    /\ agents = [pc |-> [r \in Requests |-> "received"], overlapped |-> FALSE]

\* the step of request r moves it to next, touching the sandbox or not;
\* nothing of the single-process state is involved
AgentStep(r, next, sandbox) ==
    /\ pc = "endpoint"
    /\ agents' = [pc |-> [agents.pc EXCEPT ![r] = next],
                  overlapped |-> agents.overlapped \/ (sandbox /\ Overlaps(r))]
    /\ UNCHANGED <<pc, own_code, conversation, turn, fc, outcome, stdout,
                   requests, dispatches, improve_requests, calls, deviations,
                   target0, backup0, api_key, bk, pytest, response_text>>

\* app.py lines 15-36: the submitted code is written to target_project/app.py
\* and the agent subprocess is started; a failing open answers 500
run_agent(r) ==
    /\ agents.pc[r] = "received"
    /\ IF target.exists
         THEN /\ \E user_code \in Contents :
                    target' = Dir([target.files EXCEPT !["app.py"] = user_code])
              /\ AgentStep(r, "spawned", FALSE)
         ELSE /\ target' = target
              /\ AgentStep(r, "done", FALSE)
    /\ UNCHANGED <<backup, faults, errors>>

\* agent.py lines 192-193 in the subprocess of request r
AgentBackup(r) ==
    /\ agents.pc[r] = "spawned"
    /\ \E b \in backup_project(target, backup, CanFault) :
        /\ backup' = b.backup
        /\ faults' = IF b.fault THEN faults + 1 ELSE faults
        /\ errors' = IF b.ret THEN errors ELSE errors \cup {"backup_project"}
        /\ AgentStep(r, IF LoopEntered(b.ret) THEN "loop" ELSE "done", TRUE)
    /\ target' = target

\* agent.py line 233 in the subprocess of request r: write_file on the
\* target's entry file
AgentWriteFile(r) ==
    /\ agents.pc[r] = "loop"
    /\ LET w == write_file(
                  Proposal("write_file", {"file_path", "content"}, "target",
                           "app.py", "v1", <<>>, <<>>), target, backup)
       IN  /\ target' = w.target
           /\ backup' = w.backup
    /\ AgentStep(r, "wrote", TRUE)
    /\ UNCHANGED <<faults, errors>>

\* agent.py line 270 in the subprocess of request r
AgentRestore(r) ==
    /\ agents.pc[r] \in {"loop", "wrote"}
    /\ \E t \in restore_project(target, backup, CanFault) :
        /\ target' = t.target
        /\ faults' = IF t.error THEN faults + 1 ELSE faults
        /\ errors' = IF t.error THEN errors \cup {"restore_project"} ELSE errors
    /\ AgentStep(r, "restored", TRUE)
    /\ backup' = backup

\* agent.py line 271 in the subprocess of request r
AgentCleanup(r) ==
    /\ agents.pc[r] = "restored"
    /\ \E c \in cleanup_backup(backup, CanFault) :
        /\ backup' = c.backup
        /\ faults' = IF c.error THEN faults + 1 ELSE faults
        /\ errors' = IF c.error THEN errors \cup {"cleanup_backup"} ELSE errors
    /\ AgentStep(r, "done", TRUE)
    /\ target' = target

NextEndpoint ==
    \E r \in Requests :
        \/ run_agent(r)
        \/ AgentBackup(r)
        \/ AgentWriteFile(r)
        \/ AgentRestore(r)
        \/ AgentCleanup(r)

SpecEndpoint == InitEndpoint /\ [][NextEndpoint]_vars

\* ------------------------------------------------------------------------
\* Properties
\* ------------------------------------------------------------------------
\* main_tool_loop has been left
Exited == pc \in {"driver", "self_improve", "exit"}

\* the loop of main_tool_loop is running or has just been left
InLoop == pc \in {"request", "dispatch"}

Count(seq, x) == Cardinality({i \in 1..Len(seq) : seq[i] = x})

\* C1: when main_tool_loop has been left, the target project's content equals
\* its content at entry, whatever the model proposed and however the loop
\* ended (restore_project itself meeting no I/O error)
C1_SandboxInvariant ==
    (Exited /\ "restore_project" \notin errors) => target = target0

\* C2: after a successful backup_project, restore_project and then
\* cleanup_backup are each attempted exactly once, in that order, before
\* main_tool_loop is left, on every exit path and also when restore_project
\* logged an error; neither is attempted while the loop runs
C2_RestoreThenCleanup ==
    /\ (InLoop \/ pc = "finally_restore") => calls = <<"backup_project">>
    /\ pc = "finally_cleanup" => calls = <<"backup_project", "restore_project">>
    /\ (Exited /\ bk.ret) =>
          /\ Len(calls) >= 3
          /\ SubSeq(calls, 1, 3) =
                <<"backup_project", "restore_project", "cleanup_backup">>
          /\ Count(calls, "restore_project") = 1
          /\ Count(calls, "cleanup_backup") = 1

\* C2 witness: the function was left after restore_project logged an error,
\* and cleanup_backup was attempted all the same
C2_Witness ==
    /\ pc = "driver"
    /\ "restore_project" \in errors
    /\ calls = <<"backup_project", "restore_project", "cleanup_backup">>

\* every turn so far proposed a registered tool other than finish with
\* arguments its handler accepted, and got its result
EveryTurnValid ==
    /\ Len(conversation) = 1 + 2 * requests
    /\ \A i \in 2..Len(conversation) :
          /\ conversation[i].kind \in {"call", "result"}
          /\ conversation[i].name \in tool_functions \ {"finish"}

\* C3: the loop never issues more than MAX_TURNS model requests or
\* dispatches; a run in which every turn proposed a valid non-finish call
\* leaves the loop only after exactly MAX_TURNS requests and MAX_TURNS
\* dispatches, with MaxIterationsExceeded for budget exhaustion
C3_TurnBudget ==
    /\ requests <= MAX_TURNS
    /\ dispatches <= MAX_TURNS
    /\ (pc \in {"finally_restore", "finally_cleanup"} /\ EveryTurnValid) =>
          /\ requests = MAX_TURNS
          /\ dispatches = MAX_TURNS
          /\ outcome.kind = "MaxIterationsExceeded"
          /\ outcome.reason =
                <<"Failed to fix the code within ", ToString(MAX_TURNS), " turns.">>

\* C3 witness: the budget ran out on a run of valid non-finish calls
C3_Witness ==
    /\ pc = "finally_restore"
    /\ EveryTurnValid
    /\ requests = MAX_TURNS
    /\ outcome.cause = "budget"

\* finish was proposed with accepted arguments and its handler returned
FinishDecoded ==
    /\ pc = "finally_restore"
    /\ fc.name = "finish"
    /\ Accepts(fc.name, fc.args)
    /\ outcome.kind # "Exception"

\* C4 as stated: the outcome carries exactly the message argument, with no
\* prefix: the line printed on SUCCESS, the reason raised on FAILURE
C4_ExactPassThrough ==
    FinishDecoded =>
        /\ fc.status = <<"SUCCESS">> =>
              (outcome.kind = "return" /\ stdout = <<fc.message>>)
        /\ fc.status = <<"FAILURE">> =>
              (outcome.kind = "MaxIterationsExceeded" /\ outcome.reason = fc.message)

\* C4 amended: finish(SUCCESS, m) makes main_tool_loop return after printing
\* "SUCCESS: " followed by m; finish(FAILURE, m) raises MaxIterationsExceeded
\* whose reason is "Agent finished with failure: " followed by m; in both the
\* message part is exactly the argument
C4_FinishDecoding ==
    FinishDecoded =>
        /\ fc.status = <<"SUCCESS">> =>
              /\ outcome.kind = "return"
              /\ stdout = << <<"SUCCESS: ">> \o fc.message >>
        /\ fc.status = <<"FAILURE">> =>
              /\ outcome.kind = "MaxIterationsExceeded"
              /\ outcome.reason = <<"Agent finished with failure: ">> \o fc.message

\* C4 witness: finish(FAILURE, m) decoded, m holding a character JSON escapes
C4_Witness ==
    /\ FinishDecoded
    /\ fc.status = <<"FAILURE">>
    /\ fc.message = <<"\"">>
    /\ outcome.kind = "MaxIterationsExceeded"

\* the call about to be dispatched names a registered tool whose handler
\* rejects the keyword set
RejectedCall ==
    /\ pc = "dispatch"
    /\ fc.name \in tool_functions
    /\ ~Accepts(fc.name, fc.args)

\* the step appends, directly after the proposed action, an error turn
\* naming the tool
ErrorTurnAppended ==
    /\ conversation[Len(conversation)] = CallTurn(fc)
    /\ Len(conversation') = Len(conversation) + 1
    /\ SubSeq(conversation', 1, Len(conversation)) = conversation
    /\ conversation'[Len(conversation')].kind = "error"
    /\ conversation'[Len(conversation')].name = fc.name

\* C5 as stated: on any turn, a rejected call gets an error turn and the run
\* goes on to another model request
C5_RecoveryOnAnyTurn ==
    [][RejectedCall => (ErrorTurnAppended /\ pc' = "request"
                        /\ outcome'.kind = "running")]_vars

\* C5 amended: a rejected call gets an error turn naming the tool directly
\* after the proposed action; on every turn but the last of the budget the
\* run goes on to another model request; on the MAX_TURNS-th turn the run
\* ends with MaxIterationsExceeded for budget exhaustion
C5_InvalidArgRecovery ==
    [][RejectedCall =>
        /\ ErrorTurnAppended
        /\ IF turn < MAX_TURNS
             THEN pc' = "request" /\ outcome'.kind = "running"
             ELSE /\ pc' = "finally_restore"
                  /\ outcome'.kind = "MaxIterationsExceeded"
                  /\ outcome'.cause = "budget"]_vars

\* C5 witness: write_file without content was answered with an error turn
\* and the next model request is due
C5_Witness ==
    /\ pc = "request"
    /\ fc.name = "write_file"
    /\ fc.args = {"file_path"}
    /\ conversation[Len(conversation)].kind = "error"
    /\ conversation[Len(conversation)].name = "write_file"

\* C6: a proposal naming no registered tool ends the run at once with
\* MaxIterationsExceeded whose reason names the unknown tool; no handler is
\* dispatched, no result turn is appended, no further model request is made
C6_UnknownToolTerminates ==
    /\ [][(pc = "dispatch" /\ fc.name \notin tool_functions) =>
            /\ pc' = "finally_restore"
            /\ outcome'.kind = "MaxIterationsExceeded"
            /\ outcome'.reason =
                  <<"Model requested a non-existent tool: ", fc.name>>
            /\ conversation' = conversation
            /\ dispatches' = dispatches
            /\ requests' = requests]_vars
    /\ [][(outcome.kind = "MaxIterationsExceeded" /\ outcome.cause = "unknown_tool") =>
            /\ requests' = requests
            /\ dispatches' = dispatches
            /\ pc' \notin {"request", "dispatch"}]_vars

\* C6 witness: the run has ended on an unknown tool, its call the last turn
C6_Witness ==
    /\ pc = "finally_restore"
    /\ fc.name = "delete_file"
    /\ outcome.cause = "unknown_tool"
    /\ conversation[Len(conversation)] = CallTurn(fc)

\* the four loop-level terminal conditions, as the step that meets them
NoActionStep ==
    pc = "request" /\ pc' = "finally_restore" /\ faults' = faults

UnknownToolStep == pc = "dispatch" /\ fc.name \notin tool_functions

BudgetStep ==
    pc = "dispatch" /\ Continues(fc) /\ turn = MAX_TURNS /\ faults' = faults

FinishFailureStep ==
    /\ pc = "dispatch"
    /\ fc.name = "finish"
    /\ Accepts(fc.name, fc.args)
    /\ fc.status = <<"FAILURE">>
    /\ faults' = faults

TerminalStep ==
    NoActionStep \/ UnknownToolStep \/ BudgetStep \/ FinishFailureStep

\* the step leaves the loop with MaxIterationsExceeded and a reason
FailureRaised ==
    /\ pc' = "finally_restore"
    /\ outcome'.kind = "MaxIterationsExceeded"
    /\ outcome'.reason # <<>>

Failed == outcome.kind = "MaxIterationsExceeded"

\* the driver printed the failure with its reason
FailurePrinted ==
    \E i \in 1..Len(stdout) : stdout[i] = <<"FAILURE: ">> \o outcome.reason

\* C7 as stated: every loop-level terminal condition raises
\* MaxIterationsExceeded with a non-empty reason that reaches the driver, and
\* after it no further model request of any kind is made
C7_NoRequestAfterFailure ==
    /\ [][TerminalStep => FailureRaised]_vars
    /\ [][Failed => (outcome' = outcome
                     /\ requests' = requests
                     /\ improve_requests' = improve_requests)]_vars
    /\ []((Failed /\ pc \in {"self_improve", "exit"}) => FailurePrinted)

\* C7 amended: every loop-level terminal condition raises
\* MaxIterationsExceeded with a non-empty reason, which stays the outcome and
\* is printed by the driver; after it main_tool_loop makes no further model
\* request and no dispatch; the only later model request is the one
\* improvement request of self_improve
C7_TerminalFailure ==
    /\ [][TerminalStep => FailureRaised]_vars
    /\ [][Failed => (/\ outcome' = outcome
                     /\ requests' = requests
                     /\ dispatches' = dispatches
                     /\ pc' \notin {"request", "dispatch"}
                     /\ improve_requests' \in
                           {improve_requests, improve_requests + 1}
                     /\ improve_requests' # improve_requests =>
                           pc = "self_improve")]_vars
    /\ []((Failed /\ pc \in {"self_improve", "exit"}) => FailurePrinted)
    /\ [](improve_requests <= 1)

\* C7 witness: the model gave no action, the failure was printed by the
\* driver and the improvement request was made
C7_Witness ==
    /\ pc = "exit"
    /\ outcome.cause = "no_action"
    /\ FailurePrinted
    /\ improve_requests = 1

\* C8: self_improve is entered only after MaxIterationsExceeded, only after
\* restore_project and cleanup_backup of the run, at most once, and never
\* after a normal return or another exception
C8_SelfImproveOrdering ==
    /\ \A i \in 1..Len(calls) :
          calls[i] = "self_improve" =>
             /\ Failed
             /\ i = 4
             /\ SubSeq(calls, 1, 3) =
                   <<"backup_project", "restore_project", "cleanup_backup">>
    /\ pc = "self_improve" =>
          /\ Failed
          /\ calls = <<"backup_project", "restore_project", "cleanup_backup">>
    /\ (pc = "exit" /\ ~Failed) =>
          (Count(calls, "self_improve") = 0 /\ improve_requests = 0)

\* C8 witness: self_improve ran after a failed run was restored and cleaned
C8_Witness ==
    /\ pc = "exit"
    /\ calls = <<"backup_project", "restore_project", "cleanup_backup",
                 "self_improve">>

\* a reply made of white space and fence markers only: every token is a
\* blank, a fence, or the word python directly after a fence
BlankReply(text) ==
    \A i \in 1..Len(text) :
        \/ text[i] \in {" ", "<fence>"}
        \/ text[i] = "python" /\ i > 1 /\ text[i - 1] = "<fence>"

\* C9: when the reply to the improvement request is empty once white space
\* and fence markers are stripped, the agent's source is what it was before
\* the call and no overwrite is reported
C9_NoOpOnEmptyReply ==
    (pc = "exit" /\ response_text # NoResponse /\ BlankReply(response_text)) =>
        /\ own_code = OwnSource
        /\ \A i \in 1..Len(stdout) : stdout[i] # <<"Self-improvement complete.">>

\* C9 witness: the reply was a bare python fence and the source is untouched
C9_Witness ==
    /\ pc = "exit"
    /\ response_text = <<"<fence>", "python">>
    /\ own_code = OwnSource

\* C10: after a successful backup_project the one tree at the backup path
\* is the target as it was when that call started, whatever backup was
\* there before
C10_BackupReplaces ==
    /\ backup \in Trees \cup {Absent}
    /\ (bk.called /\ bk.ret) => backup = bk.tgt

\* C10 witness: two calls with the target rewritten in between, the second
\* successful
C10_Witness ==
    /\ calls = <<"backup_project", "run_agent", "backup_project">>
    /\ bk.ret
    /\ backup = target
    /\ target # target0

\* C11: when backup_project reports failure, main_tool_loop issues no model
\* request, dispatches no tool and leaves the target as it was; and no tool
\* is dispatched (no transcript exists, no request is made) unless
\* backup_project has returned success
C11_BackupGatesLoop ==
    /\ (bk.called /\ ~bk.ret) =>
          /\ requests = 0
          /\ dispatches = 0
          /\ conversation = <<>>
          /\ target = target0
          /\ pc \in {"driver", "exit"}
          /\ calls = <<"backup_project">>
    /\ (requests > 0 \/ dispatches > 0 \/ pc \in {"request", "dispatch"}
          \/ target # target0) =>
          (bk.called /\ bk.ret /\ calls[1] = "backup_project")

\* C11 witness: backup_project failed on an I/O error and the process ended
\* without a request
C11_Witness ==
    /\ pc = "exit"
    /\ bk.called
    /\ ~bk.ret
    /\ faults = 1
    /\ requests = 0

\* the actions proposed in the transcript that no result or error turn of
\* the transcript answers
RECURSIVE Proposed(_)
Proposed(conv) ==
    IF conv = <<>> THEN 0 ELSE Head(conv).actions + Proposed(Tail(conv))

Answered(conv) ==
    Cardinality({i \in 1..Len(conv) : conv[i].kind \in {"result", "error"}})

Outstanding(conv) == Proposed(conv) - Answered(conv)

\* C12: the transcript is append-only while main_tool_loop runs and starts
\* with the one priming turn; every turn after it is a model-role turn
\* proposing at most one action, or the result turn directly after the
\* action it answers; when a model request is issued no action is unanswered
C12_TranscriptInvariant ==
    /\ [][(pc \in {"request", "dispatch"}) =>
            IsPrefix(conversation, conversation')]_vars
    /\ [](conversation # <<>> =>
            /\ conversation[1] = PrimingTurn
            /\ \A i \in 2..Len(conversation) :
                  /\ conversation[i].role = "model"
                  /\ conversation[i].kind # "text"
                  /\ conversation[i].actions <= 1
                  /\ conversation[i].kind \in {"result", "error"} =>
                        /\ conversation[i - 1].kind = "call"
                        /\ conversation[i - 1].name = conversation[i].name)
    /\ [](pc = "request" => Outstanding(conversation) = 0)

\* open(file_path) fails: a NUL in the path, a missing directory, or (for
\* reading) a missing file
PathUnopenable(p, tgt, bak) ==
    \/ p.dir = "nul"
    \/ ~DirOf(p, tgt, bak).exists
    \/ p.name = "read_file" /\ DirOf(p, tgt, bak).files[p.file] = NoFile

\* the call about to be dispatched meets a tool-internal error: a path that
\* cannot be opened, or a test command that exits nonzero
ToolInternalError ==
    /\ pc = "dispatch"
    /\ Accepts(fc.name, fc.args)
    /\ fc.wrong = {}
    /\ \/ fc.name \in {"read_file", "write_file"}
             /\ PathUnopenable(fc, target, backup)
       \/ fc.name = "run_tests" /\ pytest /\ ~TestsPass(target)
             /\ faults' = faults

\* C13: a read_file or write_file call whose path cannot be opened, and a
\* run_tests call whose command exits nonzero, does not raise out of the
\* tool: a result turn with the tool's text is appended and the run goes on
\* to the next turn (or, the budget spent, ends by budget exhaustion)
C13_ToolErrorsAreResults ==
    [][ToolInternalError =>
        /\ conversation' = Append(conversation,
               ResultTurn(fc.name, conversation'[Len(conversation')].text))
        /\ outcome'.kind # "Exception"
        /\ IF turn < MAX_TURNS
             THEN pc' = "request" /\ outcome'.kind = "running"
             ELSE pc' = "finally_restore" /\ outcome'.cause = "budget"]_vars

\* C14: with two requests of the endpoint in progress, no backup, write,
\* restore or cleanup step of one agent run falls between the backup and the
\* cleanup of the other run
C14_NoInterleaving == ~agents.overlapped

\* the process was stopped by the module-level configuration
Aborted == outcome = SystemExit

\* C15: when the API key is absent (or the client set-up fails) the process
\* exits during the module-level configuration: backup_project, the tools,
\* restore_project, cleanup_backup and self_improve never run, no model
\* request is made, and the target and the backup path are as they were
C15_AbortBeforeSandbox ==
    (~api_key \/ Aborted) =>
        /\ pc \in {"import", "exit"}
        /\ pc = "exit" => Aborted
        /\ calls = <<>>
        /\ ~bk.called
        /\ requests = 0
        /\ dispatches = 0
        /\ improve_requests = 0
        /\ conversation = <<>>
        /\ target = target0
        /\ backup = backup0
        /\ own_code = OwnSource

\* C15 witness: the process has exited for want of the key, a stale backup
\* of an earlier run still in place
C15_Witness ==
    /\ pc = "exit"
    /\ ~api_key
    /\ Aborted
    /\ "configuration" \in errors
    /\ PathExists(backup)

\* the current call is finish with both keys, each a string
ValidFinish ==
    /\ fc.name = "finish"
    /\ fc.args = {"status", "message"}
    /\ fc.wrong = {}

\* C16: once finish has been dispatched with valid arguments the transcript
\* ends with the proposed action (no result turn is appended) and no further
\* model request is made; the run ends in Success (main_tool_loop returns)
\* when the decoded status is SUCCESS and in Failure (MaxIterationsExceeded)
\* when it is FAILURE; before the loop has dispatched the call and decoded
\* its result the run has not ended
C16_FinishIsTerminal ==
    /\ (ValidFinish /\ pc = "dispatch") => outcome = Running
    /\ ValidFinish => pc \in {"dispatch", "finally_restore", "finally_cleanup"}
    /\ (ValidFinish /\ pc \in {"finally_restore", "finally_cleanup"}) =>
          /\ conversation[Len(conversation)] = CallTurn(fc)
          /\ \A i \in 1..Len(conversation) :
                conversation[i].name = "finish" =>
                    conversation[i].kind \in {"call", "error"}
          /\ requests = turn
          /\ fc.status = <<"SUCCESS">> => outcome = Returned("finish_success")
          /\ fc.status = <<"FAILURE">> =>
                /\ outcome.kind = "MaxIterationsExceeded"
                /\ outcome.cause = "finish_failure"
    /\ outcome.kind # "running" => pc \notin {"request", "dispatch"}

\* C16 witness: finish(SUCCESS, m) was dispatched on a later turn, after a
\* tool result, and main_tool_loop is returning
C16_Witness ==
    /\ pc = "finally_restore"
    /\ ValidFinish
    /\ fc.status = <<"SUCCESS">>
    /\ outcome = Returned("finish_success")
    /\ Len(conversation) = 4
    /\ conversation[3].kind = "result"

\* the keyword sets each handler's signature binds
AcceptedKeys(name) ==
    CASE name = "read_file"  -> {{"file_path"}}
      [] name = "write_file" -> {{"file_path", "content"}}
      [] name = "run_tests"  -> {{}, {"target_test"}}
      [] name = "finish"     -> {{"status", "message"}}
      [] OTHER               -> {}

\* the handler rejects what the model supplied: a missing required key, an
\* unexpected key, or a value of a type its body cannot use
Rejected(p) ==
    \/ p.args \notin AcceptedKeys(p.name)
    \/ p.name # "finish" /\ p.wrong # {}

\* the call in fc, of a registered tool, has been dispatched and the loop has
\* acted on what the dispatch gave
Dispatched ==
    /\ fc.name \in tool_functions
    /\ \/ pc = "request"
       \/ /\ pc \in {"finally_restore", "finally_cleanup"}
          /\ outcome.cause \in {"budget", "dispatch_fault", "finish_success",
                                 "finish_failure"}

LastTurn == conversation[Len(conversation)]

\* C17: after a dispatch the transcript ends with an error turn exactly when
\* the handler rejected the keyword set or a value's type, and then the loop
\* goes on (to the next request, or out by budget exhaustion); any other
\* exception of a dispatch or of a model request is not put into the
\* transcript and ends the run with that exception, after restore_project
\* and cleanup_backup and without self_improve
C17_OnlyTypeErrorRecovers ==
    /\ Dispatched =>
          /\ LastTurn.kind = "error" <=> Rejected(fc)
          /\ Rejected(fc) =>
                /\ LastTurn = ErrorTurn(fc.name)
                /\ conversation[Len(conversation) - 1] = CallTurn(fc)
                /\ outcome.kind = "running" \/ outcome.cause = "budget"
          /\ outcome.cause = "dispatch_fault" =>
                /\ LastTurn = CallTurn(fc)
                /\ outcome.kind = "Exception"
    /\ (pc = "finally_restore" /\ outcome.cause = "request_fault") =>
          /\ outcome.kind = "Exception"
          /\ Len(conversation) = 2 * turn - 1
          /\ LastTurn.kind # "call"
    /\ outcome.kind = "Exception" =>
          /\ pc \in {"finally_restore", "finally_cleanup", "driver", "exit"}
          /\ pc \in {"driver", "exit"} =>
                calls = <<"backup_project", "restore_project", "cleanup_backup">>
          /\ improve_requests = 0

\* C17 witness: a read_file call with a number for its path was answered
\* with an error turn, and on the next turn an exception of run_tests that
\* is not a TypeError ended the run, the transcript ending with the call
C17_Witness ==
    /\ pc = "finally_restore"
    /\ outcome = Uncategorized("dispatch_fault")
    /\ fc = RunAll
    /\ Len(conversation) = 4
    /\ conversation[3] = ErrorTurn("read_file")
    /\ LastTurn = CallTurn(RunAll)

\* the stripped reply is no Python program: a language tag is left in it
\* whose fence is missing
Malformed(code) == \E i \in 1..Len(code) : code[i] = "python"

\* C18: the agent's source is either what it was or, when the stripped reply
\* is non-empty and well-formed, the whole stripped reply; an empty reply, a
\* malformed reply or an error of the improvement request leaves it as it
\* was, and it is never left partly overwritten
C18_OverwriteAllOrNothing ==
    \/ own_code = OwnSource
    \/ /\ response_text # NoResponse
       /\ own_code = StripReply(response_text)
       /\ own_code # <<>>
       /\ ~Malformed(own_code)

\* C19: main_tool_loop, once called, is left (by return or by an exception)
\* whatever the model replies; until then it has made at most MAX_TURNS
\* model requests and MAX_TURNS dispatches, and its transcript never holds
\* more than 1 + 2 * MAX_TURNS turns
C19_TerminatesWithinBudget ==
    /\ [](/\ requests <= MAX_TURNS
          /\ dispatches <= MAX_TURNS
          /\ dispatches <= requests
          /\ Len(conversation) <= 1 + 2 * MAX_TURNS
          /\ Exited => outcome.kind # "running")
    /\ (pc = "start") ~> Exited

\* C19 witness: the transcript is at its greatest length, ten calls each
\* with its result after the priming turn, and the loop is being left
C19_Witness ==
    /\ pc = "finally_restore"
    /\ Len(conversation) = 1 + 2 * MAX_TURNS
    /\ requests = MAX_TURNS
    /\ dispatches = MAX_TURNS
    /\ \E i \in 2..Len(conversation) : conversation[i].kind = "error"

\* the call in fc is finish with a keyword set its signature does not bind
RejectedFinish ==
    /\ fc.name = "finish"
    /\ fc.args # {"status", "message"}

\* a finish call was answered with an error turn earlier in the transcript
FinishWasRejected ==
    \E i \in 2..Len(conversation) : conversation[i] = ErrorTurn("finish")

\* C20: a finish proposal whose keyword set is rejected does not end the
\* run as a finish: once dispatched it is answered by an error turn directly
\* after the proposed action, it has used one turn of the budget, and the
\* run goes on to another request unless the budget is spent
C20_RejectedFinishContinues ==
    (RejectedFinish /\ pc # "dispatch") =>
        /\ pc \in {"request", "finally_restore", "finally_cleanup"}
        /\ LastTurn = ErrorTurn("finish")
        /\ conversation[Len(conversation) - 1] = CallTurn(fc)
        /\ dispatches >= 1
        /\ outcome.cause \notin {"finish_success", "finish_failure",
                                  "dispatch_fault", "unknown_tool"}
        /\ pc = "request" =>
              /\ outcome = Running
              /\ turn < MAX_TURNS
              /\ requests = turn
              /\ Len(conversation) = 1 + 2 * turn
        \* the loop was left: by the budget, on the MAX_TURNS-th turn, or by
        \* the request that followed the rejected call
        /\ pc # "request" =>
              \/ /\ outcome.cause = "budget"
                 /\ turn = MAX_TURNS
                 /\ requests = dispatches
              \/ /\ outcome.cause \in {"request_fault", "no_action"}
                 /\ requests = dispatches + 1

\* C20 witness: finish without its message was answered with an error turn
\* and a later finish(SUCCESS, m) ended the run in Success
C20_Witness ==
    /\ pc = "finally_restore"
    /\ FinishWasRejected
    /\ ValidFinish
    /\ outcome = Returned("finish_success")

\* after a rejected finish the run can also end in Failure
C20_EndsInFailure ==
    /\ pc = "finally_restore"
    /\ FinishWasRejected
    /\ ValidFinish
    /\ outcome.cause = "finish_failure"

\* after a rejected finish the run can also end by budget exhaustion
C20_EndsByBudget ==
    /\ pc = "finally_restore"
    /\ FinishWasRejected
    /\ outcome.cause = "budget"
====
